---- MODULE Spec2Model ----
(***************************************************************************)
(* Model of the libsql client's Hrana transaction coordinator              *)
(* (HranaTransaction.execute / rollback / commit), of executeHranaBatch    *)
(* and of the result and error mapping helpers.                            *)
(*                                                                         *)
(* JavaScript is single threaded: the code between two awaits runs         *)
(* atomically, so every action below is one such run-to-completion slice   *)
(* of a method.  The position of a suspended call is its pc, named after   *)
(* the source line of the await it is suspended at.                        *)
(***************************************************************************)
EXTENDS Integers, Sequences, FiniteSets, TLC

\* ------------------------------------------------------------------ bounds
NProcs == 3
MaxCalls == 3
MaxStmts == 3

\* How many times in a row mapHranaError is applied to one thrown value.
MaxApply == 2

Procs == 1..NProcs

\* ------------------------------------------------------------------ errors
\* A thrown value: its class, its code (or "undefined"), its message and its
\* cause (<<>> when it has none, <<e>> when it wraps e).
HranaErr(cls, code, msg) == [cls |-> cls, code |-> code, msg |-> msg, cause |-> <<>>]

LibsqlError(msg, code, cause) == [cls |-> "LibsqlError", code |-> code, msg |-> msg, cause |-> cause]

\* The subclasses of hrana.ClientError, and the base class itself.
ClientErrorClasses ==
    {"ClientError", "ResponseError", "ProtoError", "ClosedError",
     "WebSocketError", "HttpServerError", "ProtocolVersionError"}

\* Mutant: the code of a response error is taken without the check that it
\* is defined.
mapHranaErrorCode_AnyCode(e) ==
    IF e.cls = "ResponseError" THEN e.code
    ELSE IF e.cls = "ProtoError" THEN "HRANA_PROTO_ERROR"
    ELSE IF e.cls = "ClosedError" THEN "HRANA_CLOSED_ERROR"
    ELSE IF e.cls = "WebSocketError" THEN "HRANA_WEBSOCKET_ERROR"
    ELSE IF e.cls = "HttpServerError" THEN "SERVER_ERROR"
    ELSE IF e.cls = "ProtocolVersionError" THEN "PROTOCOL_VERSION_ERROR"
    ELSE "UNKNOWN"

mapHranaErrorCode(e) ==
    IF e.cls = "ResponseError" /\ e.code # "undefined" THEN e.code
    ELSE IF e.cls = "ProtoError" THEN "HRANA_PROTO_ERROR"
    ELSE IF e.cls = "ClosedError" THEN "HRANA_CLOSED_ERROR"
    ELSE IF e.cls = "WebSocketError" THEN "HRANA_WEBSOCKET_ERROR"
    ELSE IF e.cls = "HttpServerError" THEN "SERVER_ERROR"
    ELSE IF e.cls = "ProtocolVersionError" THEN "PROTOCOL_VERSION_ERROR"
    ELSE "UNKNOWN"

mapHranaError(e) ==
    IF e.cls \in ClientErrorClasses
    THEN LibsqlError(e.msg, mapHranaErrorCode(e), <<e>>)
    ELSE e

\* The error execute() throws on a closed stream, and the one commit() throws.
ExecuteClosedError ==
    LibsqlError("Cannot execute a statement because the transaction is closed",
                "TRANSACTION_CLOSED", <<>>)

CommitClosedError ==
    LibsqlError("Cannot commit the transaction because it is already closed",
                "TRANSACTION_CLOSED", <<>>)

\* What the stream rejects a request with once it has been closed.
StreamClosedError == HranaErr("ClosedError", "undefined", "stream closed")

\* The failures the server or the transport can answer a request with.
SrvErrors ==
    {HranaErr("ResponseError", "SQLITE_ERROR", "sql"),
     HranaErr("WebSocketError", "undefined", "socket")}

\* The error a rejected promise was rejected with.
Underlying(e) == IF e.cause = <<>> THEN e ELSE e.cause[1]

\* ------------------------------------------------------------------- state
VARIABLES
    started,      \* #started: "undefined", or the promise's state
    startedErr,   \* the error #started was rejected with (<<>> or <<e>>)
    streamClosed, \* stream.closed
    coordClosed,  \* close() has been called on the coordinator
    pc,           \* per caller: where its call in progress is suspended
    cur,          \* per caller: the index in calls of its call in progress
    rows,         \* per caller: the state of its rowsPromise / run promise
    calls,        \* every call made so far, with its outcome
    waiters,      \* callers suspended on a pending #started, in await order
    microq,       \* continuations ready to run (the microtask queue), FIFO
    block,        \* how many entries at the head of microq were released
                  \* together by the settling of #started
    sent,         \* every request issued on the stream, in order
    answered,     \* how many requests of sent the server has answered
    srvBegun,     \* the server has run BEGIN successfully
    srvLog,       \* every statement the server has run, in order
    \* executeHranaBatch
    bpc,          \* where the call is: the line of the await it is suspended at
    bstmts,       \* hranaStmts, the statements handed in
    bsteps,       \* the steps of the batch, each with its condition and outcome
    bexec,        \* the state of the promise of batch.execute()
    srvPos,       \* how many steps of the batch the server has evaluated
    roundTrips,   \* how many times the batch has been submitted
    resultSets,   \* the local array of the same name
    bresult,      \* what executeHranaBatch returned or threw
    \* mapHranaError
    merr,         \* the value handed to mapHranaError (<<>> or <<e>>)
    mout          \* what it returned, and what it returned for that, in turn

txnVars == <<started, startedErr, streamClosed, coordClosed, pc, cur, rows,
             calls, waiters, microq, block, sent, answered, srvBegun, srvLog>>

batchVars == <<bpc, bstmts, bsteps, bexec, srvPos, roundTrips, resultSets, bresult>>

mapVars == <<merr, mout>>

vars == <<txnVars, batchVars, mapVars>>

NoRows == [st |-> "none", err |-> <<>>]

NoResult == [status |-> "pending", value |-> <<>>, err |-> <<>>]

\* executeHranaBatch before it is called, with no statements.
BatchIdle ==
    /\ bpc = "idle"
    /\ bstmts = <<>>
    /\ bsteps = <<>>
    /\ bexec = [st |-> "none", err |-> <<>>]
    /\ srvPos = 0
    /\ roundTrips = 0
    /\ resultSets = <<>>
    /\ bresult = NoResult

\* A transaction as its constructor leaves it, on a stream just opened.
TxnInit ==
    /\ started = "undefined"
    /\ startedErr = <<>>
    /\ streamClosed = FALSE
    /\ coordClosed = FALSE
    /\ pc = [p \in Procs |-> "idle"]
    /\ cur = [p \in Procs |-> 0]
    /\ rows = [p \in Procs |-> NoRows]
    /\ calls = <<>>
    /\ waiters = <<>>
    /\ microq = <<>>
    /\ block = 0
    /\ sent = <<>>
    /\ answered = 0
    /\ srvBegun = FALSE
    /\ srvLog = <<>>

\* mapHranaError before it is handed anything.
MapIdle ==
    /\ merr = <<>>
    /\ mout = <<>>

Init == TxnInit /\ BatchIdle /\ MapIdle

\* ----------------------------------------------------------------- helpers
\* A call as it starts: what it is, the slot it runs in, and what it found on
\* entry (the state of #started and of stream.closed).
CallRec(op, p) ==
    [op |-> op, by |-> p, status |-> "pending", err |-> <<>>, closeCalled |-> FALSE,
     sawStarted |-> started, sawClosed |-> streamClosed, converted |-> TRUE]

\* The statements execute() is handed: a string, an object with positional
\* or named args, an object without args, and null.
InStatements ==
    {[type |-> "string", args |-> "none"],
     [type |-> "object", args |-> "array"],
     [type |-> "object", args |-> "named"],
     [type |-> "object", args |-> "undefined"],
     [type |-> "null",   args |-> "none"]}

TypeError(msg) == [cls |-> "TypeError", code |-> "undefined", msg |-> msg, cause |-> <<>>]

Converted == [ok |-> TRUE, err |-> <<>>]

ConvertThrows(e) == [ok |-> FALSE, err |-> <<e>>]

\* stmtToHrana(stmt): a string and an object with args convert; reading sql
\* of null throws, and so does Object.entries of args left undefined.
stmtToHrana(stmt) ==
    IF stmt.type = "string" THEN Converted
    ELSE IF stmt.type = "null"
    THEN ConvertThrows(TypeError("Cannot read properties of null"))
    ELSE IF stmt.args = "array" THEN Converted
    ELSE IF stmt.args = "undefined"
    THEN ConvertThrows(TypeError("Cannot convert undefined or null to object"))
    ELSE Converted

\* What the _applySqlCache hook does with a converted statement.
SqlCacheHooks == {"returns", "throws"}

SqlCacheError == HranaErr("ProtoError", "undefined", "cache")

\* this._applySqlCache(stmtToHrana(stmt)): the argument is evaluated first.
applySqlCache(hook, conv) ==
    IF ~conv.ok THEN conv
    ELSE IF hook = "throws" THEN ConvertThrows(SqlCacheError)
    ELSE conv

\* The call c ends: it returns (status "ok") or throws err (status "err").
Finish(cs, c, status, err, closeCalled) ==
    [cs EXCEPT ![c] = [@ EXCEPT !.status = status, !.err = err,
                                !.closeCalled = closeCalled]]

\* `await this.#started`: on a pending promise the caller joins its waiters (w);
\* on a settled one its continuation is queued as a microtask (m).
AwaitStarted(p) ==
    IF started = "pending"
    THEN [w |-> Append(waiters, p), m |-> microq]
    ELSE [w |-> waiters, m |-> Append(microq, p)]

\* A continuation queued without waiting for the promise to settle.
NoAwait(p) == [w |-> waiters, m |-> Append(microq, p)]

\* Mutant: a later execute() goes on without waiting for #started to settle.
ExecuteAwait_NoWait(p) == NoAwait(p)

\* `await this.#started` in execute() (line 68) and in commit() (line 124).
ExecuteAwait(p) == AwaitStarted(p)

\* Mutant: commit() goes on without waiting for #started to settle.
CommitAwait_NoWait(p) == NoAwait(p)

CommitAwait(p) == AwaitStarted(p)

\* `stream.closed` as execute(), rollback() and commit() read it on entry.
ExecuteSeesClosed == streamClosed

RollbackSeesClosed == streamClosed

\* Mutant: commit() without its closed check.
CommitSeesClosed_Never == FALSE

CommitSeesClosed == streamClosed

\* `this.#started === undefined` in execute(), rollback() and commit().
\* Mutant: execute() tests whether BEGIN has completed, not whether it was sent.
ExecuteNotStarted_UntilSettled == started \in {"undefined", "pending"}

ExecuteNotStarted == started = "undefined"

\* Mutant: rollback() without its never-started early return.
RollbackNotStarted_Never == FALSE

RollbackNotStarted == started = "undefined"

CommitNotStarted == started = "undefined"

\* #started = batch.execute().then(() => beginPromise): it is fulfilled only
\* if the batch (b # "fail") and its BEGIN step (b = "ok") both succeeded;
\* the outcome s of the caller's own step plays no part.
\* Mutant: #started also waits for the caller's own statement.
StartedOutcome_WithStmt(b, s) == IF b = "ok" /\ s = "ok" THEN "ok" ELSE "failed"

\* Mutant: #started is fulfilled on success and never rejected on failure.
StartedOutcome_NeverRejects(b, s) == IF b = "ok" THEN "ok" ELSE "pending"

StartedOutcome(b, s) == IF b = "ok" THEN "ok" ELSE "failed"

\* hrana.BatchCond.ok(beginStep): the condition of the caller's step in the
\* BEGIN batch, evaluated by the server on the outcome of the BEGIN step.
\* Mutant: the caller's step without its condition.
StmtStepCondition_None(beginOutcome) == TRUE

StmtStepCondition(beginOutcome) == beginOutcome = "ok"

\* Whether the `await this.#started` of a later execute() throws.
\* Mutant: a later execute() that swallows the failure of #started.
AwaitStartedThrows_Never == FALSE

AwaitStartedThrows == started = "failed"

\* Whether the `await this.#started` of commit() throws.
CommitAwaitThrows == started = "failed"

\* The catch of `await this.#started` in the first execute() calls close().
\* Mutant: the catch rethrows without closing.
BeginFailureCloses_Not == FALSE

BeginFailureCloses == TRUE

\* The `finally` of rollback() and of commit() calls close() on every path:
\* "noop" (early return), "throw" (the closed check of commit, a failed
\* await), "ok" and "err" (the ROLLBACK / COMMIT response).
\* Mutant: close() after the await only, so that an early return skips it.
RollbackFinallyCloses_NotOnReturn(path) == path # "noop"

RollbackFinallyCloses(path) == TRUE

CommitFinallyCloses(path) == TRUE

\* Mutant: the promise of ROLLBACK is not awaited, the `finally` runs at once.
RollbackAwaitsResponse_Not == FALSE

\* `await promise` in rollback(): the body suspends until the response.
RollbackAwaitsResponse == TRUE

\* Mutant: rollback() leaves the stream open after issuing ROLLBACK.
RollbackClosesStream_Not == FALSE

\* `this.#stream.close()` in rollback(), right after ROLLBACK is issued.
RollbackClosesStream == TRUE

\* Mutant: commit() leaves the stream open after issuing COMMIT.
CommitClosesStream_Not == FALSE

\* `this.#stream.close()` in commit(), right after COMMIT is issued.
CommitClosesStream == TRUE

\* ------------------------------------------------------------ the callers
\* Callers are interchangeable: a new call takes the first free slot.
CanCall(p) ==
    /\ p \in Procs
    /\ pc[p] = "idle"
    /\ \A q \in Procs : q < p => pc[q] # "idle"
    /\ Len(calls) < MaxCalls
    /\ block = 0

\* execute(stmt), up to its first await.
ExecuteCall(p) ==
    /\ UNCHANGED <<batchVars, mapVars>>
    /\ CanCall(p)
    /\ \E stmt \in InStatements, hook \in SqlCacheHooks :
       LET c == Len(calls) + 1
           rec == CallRec("execute", p)
           hranaStmt == applySqlCache(hook, stmtToHrana(stmt)) IN
       IF ExecuteSeesClosed THEN
           /\ calls' = Append(calls, [rec EXCEPT !.status = "err",
                                                  !.err = <<ExecuteClosedError>>])
           /\ UNCHANGED <<started, startedErr, streamClosed, coordClosed, pc, cur,
                          rows, waiters, microq, block, sent>>
       ELSE IF ~hranaStmt.ok THEN
           \* lines 32-33 throw inside the try: the catch maps the error
           /\ calls' = Append(calls, [rec EXCEPT !.status = "err",
                                                  !.converted = FALSE,
                                                  !.err = <<mapHranaError(hranaStmt.err[1])>>])
           /\ UNCHANGED <<started, startedErr, streamClosed, coordClosed, pc, cur,
                          rows, waiters, microq, block, sent>>
       ELSE IF ExecuteNotStarted THEN
           /\ calls' = Append(calls, rec)
           /\ sent' = Append(sent, [kind |-> "batch", sql |-> "BEGIN", call |-> c])
           /\ started' = "pending"
           /\ startedErr' = <<>>
           /\ waiters' = Append(waiters, p)
           /\ pc' = [pc EXCEPT ![p] = "exec58"]
           /\ cur' = [cur EXCEPT ![p] = c]
           /\ rows' = [rows EXCEPT ![p] = [st |-> "pending", err |-> <<>>]]
           /\ UNCHANGED <<streamClosed, coordClosed, microq, block>>
       ELSE
           /\ calls' = Append(calls, rec)
           /\ waiters' = ExecuteAwait(p).w
           /\ microq' = ExecuteAwait(p).m
           /\ pc' = [pc EXCEPT ![p] = "exec68"]
           /\ cur' = [cur EXCEPT ![p] = c]
           /\ UNCHANGED <<started, startedErr, streamClosed, coordClosed, rows,
                          block, sent>>
    /\ UNCHANGED <<answered, srvBegun, srvLog>>

\* rollback(), up to its await.
RollbackCall(p) ==
    /\ UNCHANGED <<batchVars, mapVars>>
    /\ CanCall(p)
    /\ LET c == Len(calls) + 1
           rec == CallRec("rollback", p) IN
       IF RollbackSeesClosed \/ RollbackNotStarted THEN
           /\ calls' = Append(calls, [rec EXCEPT !.status = "ok",
                                        !.closeCalled = RollbackFinallyCloses("noop")])
           /\ coordClosed' = (coordClosed \/ RollbackFinallyCloses("noop"))
           /\ streamClosed' = (streamClosed \/ RollbackFinallyCloses("noop"))
           /\ UNCHANGED <<pc, cur, rows, sent>>
       ELSE IF RollbackAwaitsResponse THEN
           /\ calls' = Append(calls, rec)
           /\ sent' = Append(sent, [kind |-> "run", sql |-> "ROLLBACK", call |-> c])
           /\ streamClosed' = (streamClosed \/ RollbackClosesStream)
           /\ pc' = [pc EXCEPT ![p] = "rb96"]
           /\ cur' = [cur EXCEPT ![p] = c]
           /\ rows' = [rows EXCEPT ![p] = [st |-> "pending", err |-> <<>>]]
           /\ UNCHANGED coordClosed
       ELSE
           \* no suspension: the body falls through to its `finally`
           /\ calls' = Append(calls, [rec EXCEPT !.status = "ok",
                                        !.closeCalled = RollbackFinallyCloses("ok")])
           /\ sent' = Append(sent, [kind |-> "run", sql |-> "ROLLBACK", call |-> c])
           /\ streamClosed' = (streamClosed \/ RollbackClosesStream
                                            \/ RollbackFinallyCloses("ok"))
           /\ coordClosed' = (coordClosed \/ RollbackFinallyCloses("ok"))
           /\ UNCHANGED <<pc, cur, rows>>
    /\ UNCHANGED <<started, startedErr, waiters, microq, block, answered,
                   srvBegun, srvLog>>

\* commit(), up to its first await.
CommitCall(p) ==
    /\ UNCHANGED <<batchVars, mapVars>>
    /\ CanCall(p)
    /\ LET c == Len(calls) + 1
           rec == CallRec("commit", p) IN
       IF CommitSeesClosed THEN
           /\ calls' = Append(calls, [rec EXCEPT !.status = "err",
                                        !.err = <<mapHranaError(CommitClosedError)>>,
                                        !.closeCalled = CommitFinallyCloses("throw")])
           /\ coordClosed' = (coordClosed \/ CommitFinallyCloses("throw"))
           /\ UNCHANGED <<streamClosed, pc, cur, waiters, microq>>
       ELSE IF CommitNotStarted THEN
           /\ calls' = Append(calls, [rec EXCEPT !.status = "ok",
                                        !.closeCalled = CommitFinallyCloses("noop")])
           /\ coordClosed' = (coordClosed \/ CommitFinallyCloses("noop"))
           /\ streamClosed' = (streamClosed \/ CommitFinallyCloses("noop"))
           /\ UNCHANGED <<pc, cur, waiters, microq>>
       ELSE
           /\ calls' = Append(calls, rec)
           /\ waiters' = CommitAwait(p).w
           /\ microq' = CommitAwait(p).m
           /\ pc' = [pc EXCEPT ![p] = "cm124"]
           /\ cur' = [cur EXCEPT ![p] = c]
           /\ UNCHANGED <<streamClosed, coordClosed>>
    /\ UNCHANGED <<started, startedErr, rows, block, sent, answered, srvBegun, srvLog>>

\* close(), called by the user: the transport-specific hook; it closes the
\* stream.
CloseCall ==
    /\ UNCHANGED <<batchVars, mapVars>>
    /\ Len(calls) < MaxCalls
    /\ block = 0
    /\ calls' = Append(calls, [CallRec("close", 0) EXCEPT !.status = "ok",
                                                          !.closeCalled = TRUE])
    /\ coordClosed' = TRUE
    /\ streamClosed' = TRUE
    /\ UNCHANGED <<started, startedErr, pc, cur, rows, waiters, microq,
                   block, sent, answered, srvBegun, srvLog>>

\* ---------------------------------------------------- the stream's far end
\* The server answers the requests of the stream in the order they were
\* issued, one per step, once the microtask queue has drained.
CanAnswer ==
    /\ answered < Len(sent)
    /\ microq = <<>>

NextReq == sent[answered + 1]

\* What the server logs for a statement it ran.
Ran(sql, c, out, e, begun) ==
    [sql |-> sql, call |-> c, out |-> out,
     err |-> IF out = "ok" THEN <<>> ELSE <<e>>, begun |-> begun]

\* The batch of the first execute(): BEGIN, then the caller's statement under
\* its condition.  b is the outcome of batch.execute() and of the BEGIN step
\* ("fail": the batch itself failed), s the outcome of the statement if it
\* runs, e the error of whatever fails.
AnswerBatch(b, s, e) ==
    /\ UNCHANGED <<batchVars, mapVars>>
    /\ CanAnswer
    /\ NextReq.kind = "batch"
    /\ LET c == NextReq.call
           p == calls[c].by
           runs == b # "fail" /\ StmtStepCondition(b)
           begun == srvBegun \/ b = "ok"
           beginLog == IF b = "fail" THEN <<>> ELSE <<Ran("BEGIN", c, b, e, srvBegun)>>
           stmtLog == IF runs THEN <<Ran("STMT", c, s, e, begun)>> ELSE <<>>
           rowsP == IF b = "fail" THEN [st |-> "err", err |-> <<e>>]
                    ELSE IF ~runs THEN [st |-> "undef", err |-> <<>>]
                    ELSE IF s = "ok" THEN [st |-> "ok", err |-> <<>>]
                    ELSE [st |-> "err", err |-> <<e>>] IN
       /\ srvBegun' = begun
       /\ srvLog' = srvLog \o beginLog \o stmtLog
       /\ rows' = [rows EXCEPT ![p] = rowsP]
       /\ started' = StartedOutcome(b, IF runs THEN s ELSE "none")
       /\ startedErr' = IF started' = "ok" THEN <<>> ELSE <<e>>
       \* the continuations awaiting #started are queued when it settles
       /\ microq' = IF started' = "pending" THEN microq ELSE waiters
       /\ block' = IF started' = "pending" THEN block ELSE Len(waiters)
       /\ waiters' = IF started' = "pending" THEN waiters ELSE <<>>
    /\ answered' = answered + 1
    /\ UNCHANGED <<streamClosed, coordClosed, pc, cur, calls, sent>>

\* stream.query(stmt), stream.run("COMMIT"), stream.run("ROLLBACK").
AnswerRequest(s, e) ==
    /\ UNCHANGED <<batchVars, mapVars>>
    /\ CanAnswer
    /\ NextReq.kind # "batch"
    /\ LET c == NextReq.call
           p == calls[c].by IN
       /\ srvLog' = Append(srvLog, Ran(NextReq.sql, c, s, e, srvBegun))
       /\ rows' = [rows EXCEPT ![p] = IF s = "ok" THEN [st |-> "ok", err |-> <<>>]
                                      ELSE [st |-> "err", err |-> <<e>>]]
       /\ microq' = Append(microq, p)
    /\ answered' = answered + 1
    /\ UNCHANGED <<started, startedErr, streamClosed, coordClosed, pc, cur, calls,
                   waiters, block, sent, srvBegun>>

ServerAnswer ==
    \/ \E e \in SrvErrors : AnswerBatch("fail", "none", e)
    \/ \E e \in SrvErrors : AnswerBatch("err", "ok", e)
    \/ \E s \in {"ok", "err"}, e \in SrvErrors :
          (s = "ok" => e = CHOOSE x \in SrvErrors : TRUE) /\ AnswerBatch("ok", s, e)
    \/ \E s \in {"ok", "err"}, e \in SrvErrors :
          (s = "ok" => e = CHOOSE x \in SrvErrors : TRUE) /\ AnswerRequest(s, e)

\* ------------------------------------------------------- the continuations
\* The continuation at the head of the microtask queue runs next.
CanResume(p, at) ==
    /\ microq # <<>>
    /\ Head(microq) = p
    /\ pc[p] = at

Dequeued == Tail(microq)

BlockAfter == IF block > 0 THEN block - 1 ELSE 0

\* What rowsPromise rejects with when resultSetFromHrana is handed undefined.
NoRowsTypeError == TypeError("undefined rows")

\* The first execute() after `await this.#started` (line 58).
ResumeFirstExecute(p) ==
    /\ UNCHANGED <<batchVars, mapVars>>
    /\ CanResume(p, "exec58")
    /\ IF started = "failed" THEN
           \* catch: this.close(); throw e; then the outer catch maps the error
           /\ calls' = Finish(calls, cur[p], "err", <<mapHranaError(startedErr[1])>>,
                              BeginFailureCloses)
           /\ coordClosed' = (coordClosed \/ BeginFailureCloses)
           /\ streamClosed' = (streamClosed \/ BeginFailureCloses)
           /\ pc' = [pc EXCEPT ![p] = "idle"]
           /\ cur' = [cur EXCEPT ![p] = 0]
           /\ rows' = [rows EXCEPT ![p] = NoRows]
           /\ microq' = Dequeued
       ELSE
           \* `await rowsPromise`, which the batch has settled already
           /\ pc' = [pc EXCEPT ![p] = "exec73"]
           /\ microq' = Append(Dequeued, p)
           /\ UNCHANGED <<calls, coordClosed, streamClosed, cur, rows>>
    /\ block' = BlockAfter
    /\ UNCHANGED <<started, startedErr, waiters, sent, answered, srvBegun, srvLog>>

\* A later execute() after `await this.#started` (line 68).
ResumeExecute(p) ==
    /\ UNCHANGED <<batchVars, mapVars>>
    /\ CanResume(p, "exec68")
    /\ IF AwaitStartedThrows THEN
           /\ calls' = Finish(calls, cur[p], "err", <<mapHranaError(startedErr[1])>>, FALSE)
           /\ pc' = [pc EXCEPT ![p] = "idle"]
           /\ cur' = [cur EXCEPT ![p] = 0]
           /\ microq' = Dequeued
           /\ UNCHANGED <<rows, sent>>
       ELSE IF streamClosed THEN
           \* stream.query() on a closed stream: a promise rejected at once
           /\ rows' = [rows EXCEPT ![p] = [st |-> "err", err |-> <<StreamClosedError>>]]
           /\ pc' = [pc EXCEPT ![p] = "exec73"]
           /\ microq' = Append(Dequeued, p)
           /\ UNCHANGED <<calls, cur, sent>>
       ELSE
           /\ sent' = Append(sent, [kind |-> "query", sql |-> "STMT", call |-> cur[p]])
           /\ rows' = [rows EXCEPT ![p] = [st |-> "pending", err |-> <<>>]]
           /\ pc' = [pc EXCEPT ![p] = "exec73"]
           /\ microq' = Dequeued
           /\ UNCHANGED <<calls, cur>>
    /\ block' = BlockAfter
    /\ UNCHANGED <<started, startedErr, streamClosed, coordClosed, waiters,
                   answered, srvBegun, srvLog>>

\* execute() after `await rowsPromise` (line 73).
ResumeRows(p) ==
    /\ UNCHANGED <<batchVars, mapVars>>
    /\ CanResume(p, "exec73")
    /\ rows[p].st # "pending"
    /\ calls' = IF rows[p].st = "ok"
                THEN Finish(calls, cur[p], "ok", <<>>, FALSE)
                ELSE IF rows[p].st = "err"
                THEN Finish(calls, cur[p], "err", <<mapHranaError(rows[p].err[1])>>, FALSE)
                ELSE Finish(calls, cur[p], "err", <<mapHranaError(NoRowsTypeError)>>, FALSE)
    /\ pc' = [pc EXCEPT ![p] = "idle"]
    /\ cur' = [cur EXCEPT ![p] = 0]
    /\ rows' = [rows EXCEPT ![p] = NoRows]
    /\ microq' = Dequeued
    /\ block' = BlockAfter
    /\ UNCHANGED <<started, startedErr, streamClosed, coordClosed, waiters, sent,
                   answered, srvBegun, srvLog>>

\* commit() after `await this.#started` (line 124).
ResumeCommit(p) ==
    /\ UNCHANGED <<batchVars, mapVars>>
    /\ CanResume(p, "cm124")
    /\ IF CommitAwaitThrows THEN
           /\ calls' = Finish(calls, cur[p], "err", <<mapHranaError(startedErr[1])>>,
                              CommitFinallyCloses("throw"))
           /\ coordClosed' = (coordClosed \/ CommitFinallyCloses("throw"))
           /\ streamClosed' = (streamClosed \/ CommitFinallyCloses("throw"))
           /\ pc' = [pc EXCEPT ![p] = "idle"]
           /\ cur' = [cur EXCEPT ![p] = 0]
           /\ microq' = Dequeued
           /\ UNCHANGED <<rows, sent>>
       ELSE IF streamClosed THEN
           \* stream.run() on a closed stream: a promise rejected at once, which
           \* queues the handler of its .catch
           /\ rows' = [rows EXCEPT ![p] = [st |-> "err", err |-> <<StreamClosedError>>]]
           /\ pc' = [pc EXCEPT ![p] = "cm130"]
           /\ microq' = Append(Dequeued, p)
           /\ UNCHANGED <<calls, cur, sent, streamClosed, coordClosed>>
       ELSE
           /\ sent' = Append(sent, [kind |-> "run", sql |-> "COMMIT", call |-> cur[p]])
           /\ streamClosed' = (streamClosed \/ CommitClosesStream)
           /\ rows' = [rows EXCEPT ![p] = [st |-> "pending", err |-> <<>>]]
           /\ pc' = [pc EXCEPT ![p] = "cm130"]
           /\ microq' = Dequeued
           /\ UNCHANGED <<calls, cur, coordClosed>>
    /\ block' = BlockAfter
    /\ UNCHANGED <<started, startedErr, waiters, answered, srvBegun, srvLog>>

\* The promise of stream.run("COMMIT") has settled: the handler of its
\* .catch runs (line 130) and settles `promise`, which queues the
\* continuation of `await promise`.
ResumeCommitCatch(p) ==
    /\ UNCHANGED <<batchVars, mapVars>>
    /\ CanResume(p, "cm130")
    /\ rows[p].st # "pending"
    /\ rows' = [rows EXCEPT ![p] = IF @.st = "err"
                                   THEN [@ EXCEPT !.err = <<mapHranaError(@[1])>>]
                                   ELSE @]
    /\ pc' = [pc EXCEPT ![p] = "cm133"]
    /\ microq' = Append(Dequeued, p)
    /\ block' = BlockAfter
    /\ UNCHANGED <<started, startedErr, streamClosed, coordClosed, cur, calls,
                   waiters, sent, answered, srvBegun, srvLog>>

\* commit() after `await promise` (line 133), then its finally.
ResumeCommitDone(p) ==
    /\ UNCHANGED <<batchVars, mapVars>>
    /\ CanResume(p, "cm133")
    /\ rows[p].st # "pending"
    /\ LET path == IF rows[p].st = "ok" THEN "ok" ELSE "err" IN
       /\ calls' = IF path = "ok"
                   THEN Finish(calls, cur[p], "ok", <<>>, CommitFinallyCloses(path))
                   ELSE Finish(calls, cur[p], "err",
                               <<mapHranaError(rows[p].err[1])>>,
                               CommitFinallyCloses(path))
       /\ coordClosed' = (coordClosed \/ CommitFinallyCloses(path))
       /\ streamClosed' = (streamClosed \/ CommitFinallyCloses(path))
    /\ pc' = [pc EXCEPT ![p] = "idle"]
    /\ cur' = [cur EXCEPT ![p] = 0]
    /\ rows' = [rows EXCEPT ![p] = NoRows]
    /\ microq' = Dequeued
    /\ block' = BlockAfter
    /\ UNCHANGED <<started, startedErr, waiters, sent, answered, srvBegun, srvLog>>

\* The promise of stream.run("ROLLBACK") has settled: the handler of its
\* .catch runs (line 96) and settles `promise`.
ResumeRollbackCatch(p) ==
    /\ UNCHANGED <<batchVars, mapVars>>
    /\ CanResume(p, "rb96")
    /\ rows[p].st # "pending"
    /\ rows' = [rows EXCEPT ![p] = IF @.st = "err"
                                   THEN [@ EXCEPT !.err = <<mapHranaError(@[1])>>]
                                   ELSE @]
    /\ pc' = [pc EXCEPT ![p] = "rb99"]
    /\ microq' = Append(Dequeued, p)
    /\ block' = BlockAfter
    /\ UNCHANGED <<started, startedErr, streamClosed, coordClosed, cur, calls,
                   waiters, sent, answered, srvBegun, srvLog>>

\* rollback() after `await promise` (line 99), then its finally.
ResumeRollbackDone(p) ==
    /\ UNCHANGED <<batchVars, mapVars>>
    /\ CanResume(p, "rb99")
    /\ rows[p].st # "pending"
    /\ LET path == IF rows[p].st = "ok" THEN "ok" ELSE "err" IN
       /\ calls' = IF path = "ok"
                   THEN Finish(calls, cur[p], "ok", <<>>, RollbackFinallyCloses(path))
                   ELSE Finish(calls, cur[p], "err",
                               <<mapHranaError(rows[p].err[1])>>,
                               RollbackFinallyCloses(path))
       /\ coordClosed' = (coordClosed \/ RollbackFinallyCloses(path))
       /\ streamClosed' = (streamClosed \/ RollbackFinallyCloses(path))
    /\ pc' = [pc EXCEPT ![p] = "idle"]
    /\ cur' = [cur EXCEPT ![p] = 0]
    /\ rows' = [rows EXCEPT ![p] = NoRows]
    /\ microq' = Dequeued
    /\ block' = BlockAfter
    /\ UNCHANGED <<started, startedErr, waiters, sent, answered, srvBegun, srvLog>>

\* ------------------------------------------------------- the specification
Next ==
    \/ \E p \in Procs : ExecuteCall(p)
    \/ \E p \in Procs : RollbackCall(p)
    \/ \E p \in Procs : CommitCall(p)
    \/ CloseCall
    \/ ServerAnswer
    \/ \E p \in Procs : ResumeFirstExecute(p)
    \/ \E p \in Procs : ResumeExecute(p)
    \/ \E p \in Procs : ResumeRows(p)
    \/ \E p \in Procs : ResumeCommit(p)
    \/ \E p \in Procs : ResumeCommitCatch(p)
    \/ \E p \in Procs : ResumeRollbackCatch(p)
    \/ \E p \in Procs : ResumeCommitDone(p)
    \/ \E p \in Procs : ResumeRollbackDone(p)

Spec == Init /\ [][Next]_vars

\* The continuations: the microtask at the head of the queue.
Continuation ==
    \E p \in Procs :
       \/ ResumeFirstExecute(p)
       \/ ResumeExecute(p)
       \/ ResumeRows(p)
       \/ ResumeCommit(p)
       \/ ResumeCommitCatch(p)
       \/ ResumeRollbackCatch(p)
       \/ ResumeCommitDone(p)
       \/ ResumeRollbackDone(p)

\* The same program under its scheduling: the event loop runs every queued
\* continuation, and the stream answers or fails every request it was sent.
LiveSpec == Init /\ [][Next]_vars /\ WF_vars(ServerAnswer) /\ WF_vars(Continuation)

\* =========================================================== batch runner
\* ------------------------------------------------------------ result sets
Stmts == {"SELECT 1", "SELECT 2"}

\* A decimal string, as a sequence of digits, read as a number: BigInt(text).
RECURSIVE BigInt(_)
BigInt(digits) ==
    IF digits = <<>> THEN 0
    ELSE 10 * BigInt(SubSeq(digits, 1, Len(digits) - 1)) + digits[Len(digits)]

\* The rows results the server may answer a statement with.  A column name or
\* a last insert rowid that is absent is <<>>, one that is present is <<x>>.
RowsResults(stmt) ==
    {[columnNames |-> << <<stmt>>, <<>> >>, rows |-> << <<stmt, 1>> >>,
      affectedRowCount |-> 0, lastInsertRowid |-> <<>>],
     [columnNames |-> << <<"id">> >>, rows |-> << <<stmt, 2>> >>,
      affectedRowCount |-> 1, lastInsertRowid |-> << <<4, 2>> >>]}

resultSetFromHrana(hranaRows) ==
    [columns |-> [i \in DOMAIN hranaRows.columnNames |->
                     IF hranaRows.columnNames[i] = <<>> THEN ""
                     ELSE hranaRows.columnNames[i][1]],
     rows |-> hranaRows.rows,
     rowsAffected |-> hranaRows.affectedRowCount,
     lastInsertRowid |-> IF hranaRows.lastInsertRowid # <<>>
                         THEN <<BigInt(hranaRows.lastInsertRowid[1])>>
                         ELSE <<>>]

\* ------------------------------------------------------------- conditions
\* A condition names an earlier step (0: no condition) and may be negated.
NoCond == [step |-> 0, neg |-> FALSE]

BatchCondOk(k) == [step |-> k, neg |-> FALSE]

BatchCondNot(c) == [c EXCEPT !.neg = ~c.neg]

\* The server's evaluation of a condition on the outcomes so far.
CondHolds(cond, steps) ==
    IF cond.step = 0 THEN TRUE
    ELSE (steps[cond.step].out = "ok") # cond.neg

\* --------------------------------------------------------------- building
NewStep(sql, cond) == [sql |-> sql, cond |-> cond, out |-> "pending", rows |-> <<>>, err |-> <<>>]

\* Mutant: every statement conditioned on BEGIN, lastStep never advanced.
StmtCond_OnBegin(i) == BatchCondOk(1)

\* The condition of the i-th statement: ok(lastStep), the step before it
\* (BEGIN is step 1, the i-th statement step i + 1).
StmtCond(i) == BatchCondOk(i)

\* The condition of COMMIT after n statements: ok(lastStep).
CommitCond(n) == BatchCondOk(n + 1)

\* The condition of ROLLBACK: not(ok(commitStep)).
RollbackCond(n) == BatchCondNot(BatchCondOk(n + 2))

\* The steps executeHranaBatch adds to the batch, in order.
BuildSteps(stmts) ==
    <<NewStep("BEGIN", NoCond)>>
    \o [i \in 1..Len(stmts) |-> NewStep(stmts[i], StmtCond(i))]
    \o <<NewStep("COMMIT", CommitCond(Len(stmts)))>>
    \o <<NewStep("ROLLBACK", RollbackCond(Len(stmts)))>>

\* The step of the i-th statement promise.
StmtStep(i) == i + 1

\* Mutant: the last await is of the ROLLBACK step's promise.
CommitStep_Rollback == Len(bstmts) + 3

CommitStep == Len(bstmts) + 2

RollbackStep == Len(bstmts) + 3

\* Mutant: results collected in front of the earlier ones.
Push_Front(rs, r) == <<r>> \o rs

\* resultSets.push(r)
Push(rs, r) == Append(rs, r)

MissingResultError ==
    LibsqlError("Server did not return a result for statement in a batch",
                "SERVER_ERROR", <<>>)

\* The statement lists executeHranaBatch is called with.
StmtLists == UNION {[1..n -> Stmts] : n \in 0..MaxStmts}

BatchInit ==
    /\ TxnInit
    /\ MapIdle
    /\ bpc = "call"
    /\ bstmts \in StmtLists
    /\ bsteps = <<>>
    /\ bexec = [st |-> "none", err |-> <<>>]
    /\ srvPos = 0
    /\ roundTrips = 0
    /\ resultSets = <<>>
    /\ bresult = NoResult

\* Lines 146-167: the steps are added and the batch is submitted.
BatchSubmit ==
    /\ bpc = "call"
    /\ bsteps' = BuildSteps(bstmts)
    /\ bexec' = [st |-> "pending", err |-> <<>>]
    /\ roundTrips' = roundTrips + 1
    /\ bpc' = "await167"
    /\ UNCHANGED <<bstmts, srvPos, resultSets, bresult>>
    /\ UNCHANGED <<txnVars, mapVars>>

\* The server evaluates the next step: it runs it if its condition holds,
\* with rows or with an error, and skips it otherwise.
ServerStep ==
    /\ bexec.st = "pending"
    /\ srvPos < Len(bsteps)
    /\ LET k == srvPos + 1
           step == bsteps[k] IN
       /\ IF CondHolds(step.cond, bsteps)
          THEN \/ \E r \in RowsResults(step.sql) :
                     bsteps' = [bsteps EXCEPT ![k] = [@ EXCEPT !.out = "ok", !.rows = <<r>>]]
               \/ \E e \in SrvErrors :
                     bsteps' = [bsteps EXCEPT ![k] = [@ EXCEPT !.out = "err", !.err = <<e>>]]
          ELSE bsteps' = [bsteps EXCEPT ![k] = [@ EXCEPT !.out = "notrun"]]
       /\ srvPos' = k
    /\ UNCHANGED <<bpc, bstmts, bexec, roundTrips, resultSets, bresult>>
    /\ UNCHANGED <<txnVars, mapVars>>

\* The response of the batch arrives: batch.execute() is fulfilled.
BatchAnswered ==
    /\ bexec.st = "pending"
    /\ srvPos = Len(bsteps)
    /\ bexec' = [st |-> "ok", err |-> <<>>]
    /\ UNCHANGED <<bpc, bstmts, bsteps, srvPos, roundTrips, resultSets, bresult>>
    /\ UNCHANGED <<txnVars, mapVars>>

\* The batch fails as a whole (the stream, the transport): batch.execute()
\* is rejected.
BatchFailed ==
    /\ bexec.st = "pending"
    /\ \E e \in SrvErrors : bexec' = [st |-> "err", err |-> <<e>>]
    /\ UNCHANGED <<bpc, bstmts, bsteps, srvPos, roundTrips, resultSets, bresult>>
    /\ UNCHANGED <<txnVars, mapVars>>

Throw(e) == [status |-> "err", value |-> <<>>, err |-> <<e>>]

\* Mutant: beginPromise is not awaited.
BeginPromiseRejects_Never == FALSE

\* `await beginPromise` throws when the BEGIN step failed.
BeginPromiseRejects == bsteps[1].out = "err"

\* Mutant: commitPromise is not awaited.
CommitPromiseRejects_Never == FALSE

\* `await commitPromise` throws when the COMMIT step failed.
CommitPromiseRejects == bsteps[CommitStep].out = "err"

\* Line 167: `await batch.execute()`.
AwaitExecute ==
    /\ bpc = "await167"
    /\ bexec.st \in {"ok", "err"}
    /\ IF bexec.st = "err"
       THEN bpc' = "done" /\ bresult' = Throw(bexec.err[1])
       ELSE bpc' = "await170" /\ UNCHANGED bresult
    /\ UNCHANGED <<bstmts, bsteps, bexec, srvPos, roundTrips, resultSets>>
    /\ UNCHANGED <<txnVars, mapVars>>

\* Line 170: `await beginPromise`.
AwaitBegin ==
    /\ bpc = "await170"
    /\ IF BeginPromiseRejects
       THEN bpc' = "done" /\ bresult' = Throw(bsteps[1].err[1])
       ELSE /\ bpc' = IF Len(bstmts) = 0 THEN "await181" ELSE "await172"
            /\ UNCHANGED bresult
    /\ UNCHANGED <<bstmts, bsteps, bexec, srvPos, roundTrips, resultSets>>
    /\ UNCHANGED <<txnVars, mapVars>>

\* Lines 171-180: one turn of the loop over stmtPromises.
AwaitStmt ==
    /\ bpc = "await172"
    /\ LET i == Len(resultSets) + 1
           step == bsteps[StmtStep(i)] IN
       IF step.out = "err" THEN
           /\ bpc' = "done"
           /\ bresult' = Throw(step.err[1])
           /\ UNCHANGED resultSets
       ELSE IF step.out = "notrun" THEN
           /\ bpc' = "done"
           /\ bresult' = Throw(MissingResultError)
           /\ UNCHANGED resultSets
       ELSE
           /\ resultSets' = Push(resultSets, resultSetFromHrana(step.rows[1]))
           /\ bpc' = IF i = Len(bstmts) THEN "await181" ELSE "await172"
           /\ UNCHANGED bresult
    /\ UNCHANGED <<bstmts, bsteps, bexec, srvPos, roundTrips>>
    /\ UNCHANGED <<txnVars, mapVars>>

\* Lines 181-183: `await commitPromise`, then the return.
AwaitCommit ==
    /\ bpc = "await181"
    /\ bpc' = "done"
    /\ bresult' = IF CommitPromiseRejects
                  THEN Throw(bsteps[CommitStep].err[1])
                  ELSE [status |-> "ok", value |-> resultSets, err |-> <<>>]
    /\ UNCHANGED <<bstmts, bsteps, bexec, srvPos, roundTrips, resultSets>>
    /\ UNCHANGED <<txnVars, mapVars>>

BatchNext ==
    \/ BatchSubmit
    \/ ServerStep
    \/ BatchAnswered
    \/ BatchFailed
    \/ AwaitExecute
    \/ AwaitBegin
    \/ AwaitStmt
    \/ AwaitCommit

BatchSpec == BatchInit /\ [][BatchNext]_vars

\* ================================================================== claims
NumSent(sql) == Cardinality({i \in DOMAIN sent : sent[i].sql = sql})

SentFor(c) == {i \in DOMAIN sent : sent[i].call = c}

CallIds == DOMAIN calls

Done(c) == calls[c].status # "pending"

\* An execute() call that was pending while the BEGIN round-trip was (one
\* whose statement does not convert throws before it reads #started and is
\* never pending).
StartingExecute(c) ==
    /\ calls[c].op = "execute"
    /\ ~calls[c].sawClosed
    /\ calls[c].converted
    /\ calls[c].sawStarted \in {"undefined", "pending"}

\* C1: on a fresh transaction exactly one BEGIN is sent, however many
\* execute() calls are made before or after the first round-trip resolves:
\* only the call that found #started undefined sends it. (The calls are
\* those handed a statement that converts; one that is not throws at once
\* and sends nothing.)
C1_ExactlyOneBegin ==
    /\ NumSent("BEGIN") <= 1
    /\ \A c \in CallIds : ~calls[c].converted => (Done(c) /\ SentFor(c) = {})
    /\ \A c \in CallIds :
          calls[c].op = "execute" /\ ~calls[c].sawClosed /\ calls[c].converted =>
             /\ NumSent("BEGIN") = 1
             /\ (calls[c].sawStarted # "undefined" =>
                    \A i \in SentFor(c) : sent[i].sql # "BEGIN")

C1_Witness ==
    /\ answered = 0
    /\ NumSent("BEGIN") = 1
    /\ \E p, q, r \in Procs :
          /\ p # q /\ q # r /\ p # r
          /\ pc[p] = "exec58" /\ pc[q] = "exec68" /\ pc[r] = "exec68"

\* C2: the server runs a caller's statement only once BEGIN has succeeded,
\* and a statement is issued on its own only after #started was fulfilled.
C2_NoStmtOutsideTxn ==
    /\ \A i \in DOMAIN srvLog :
          srvLog[i].sql = "STMT" => srvLog[i].begun /\ started = "ok"
    /\ \A i \in DOMAIN sent : sent[i].kind = "query" => started = "ok"

C2_Witness ==
    \E i, j \in DOMAIN srvLog :
       /\ srvLog[i].sql = "STMT" /\ srvLog[j].sql = "STMT"
       /\ calls[srvLog[i].call].sawStarted = "undefined"
       /\ calls[srvLog[j].call].sawStarted = "pending"

\* C3: once BEGIN has failed, every execute() that was pending at that moment
\* fails with the error #started was rejected with, within the run of
\* continuations its rejection released, and the transaction is closed when
\* that run is over: the execute() that sent BEGIN has called close().
C3_BeginFailureFailsAll ==
    started = "failed" =>
       /\ \A c \in CallIds :
             StartingExecute(c) =>
                IF Done(c)
                THEN /\ calls[c].status = "err"
                     /\ Underlying(calls[c].err[1]) = startedErr[1]
                ELSE block > 0
       /\ \A c \in CallIds :
             StartingExecute(c) /\ calls[c].sawStarted = "undefined" /\ Done(c) =>
                calls[c].closeCalled
       /\ (block = 0 => streamClosed /\ coordClosed)

C3_Witness ==
    /\ started = "failed"
    /\ block = 0
    /\ \E c, d \in CallIds :
          /\ c # d
          /\ StartingExecute(c) /\ StartingExecute(d)
          /\ Done(c) /\ Done(d)
          /\ calls[c].err = calls[d].err

\* C4 as stated: a commit() made after BEGIN has failed returns, and sends
\* no COMMIT.
C4_CommitAfterFailedBeginReturns ==
    \A c \in CallIds :
       calls[c].op = "commit" /\ calls[c].sawStarted = "failed" =>
          /\ calls[c].status = "ok"
          /\ SentFor(c) = {}

\* C4, amended: a commit() made after BEGIN has failed sends no COMMIT and
\* does not return: the transaction is closed by then, and the call fails
\* with TRANSACTION_CLOSED.
C4_CommitAfterFailedBeginThrows ==
    \A c \in CallIds :
       calls[c].op = "commit" /\ calls[c].sawStarted = "failed" =>
          /\ calls[c].status = "err"
          /\ calls[c].err = <<CommitClosedError>>
          /\ SentFor(c) = {}
          /\ NumSent("COMMIT") = 0

C4_Witness ==
    \E c \in CallIds : calls[c].op = "commit" /\ calls[c].sawStarted = "failed"

NoCloser == \A c \in CallIds : calls[c].op \notin {"commit", "rollback", "close"}

\* C5: when BEGIN succeeded and a caller's statement failed, #started is
\* fulfilled all the same, that execute() fails with the statement's own error
\* (mapped), nothing is closed by it, and an execute() made afterwards sends
\* its statement without a BEGIN and succeeds when the statement does.
C5_StmtFailureKeepsTxnOpen ==
    /\ \A i \in DOMAIN srvLog :
          srvLog[i].sql = "STMT" /\ srvLog[i].out = "err" =>
             LET c == srvLog[i].call IN
             /\ started = "ok"
             /\ Done(c) => /\ calls[c].status = "err"
                           /\ calls[c].err[1].cls = "LibsqlError"
                           /\ calls[c].err[1].cause = srvLog[i].err
    /\ (streamClosed \/ coordClosed) => (started = "failed" \/ ~NoCloser)
    /\ \A d \in CallIds :
          (/\ calls[d].op = "execute"
           /\ calls[d].sawStarted = "ok"
           /\ ~calls[d].sawClosed
           /\ calls[d].converted) =>
             /\ \A i \in SentFor(d) : sent[i].sql # "BEGIN"
             /\ NumSent("BEGIN") = 1
             /\ NoCloser => \/ ~Done(d) /\ pc[calls[d].by] = "exec68"
                            \/ SentFor(d) # {}
             /\ \A i \in DOMAIN srvLog :
                   srvLog[i].call = d /\ srvLog[i].out = "ok" /\ Done(d) =>
                      calls[d].status = "ok"

C5_Witness ==
    /\ ~streamClosed /\ ~coordClosed
    /\ NumSent("BEGIN") = 1
    /\ \E c, d \in CallIds :
          /\ calls[c].op = "execute" /\ calls[c].sawStarted = "undefined"
          /\ calls[c].status = "err"
          /\ \E i \in DOMAIN srvLog :
                srvLog[i].call = c /\ srvLog[i].sql = "STMT" /\ srvLog[i].out = "err"
          /\ calls[d].op = "execute" /\ calls[d].sawStarted = "ok"
          /\ calls[d].status = "ok"

\* C6: an execute() or a commit() that finds the stream closed fails with
\* TRANSACTION_CLOSED and issues nothing on the stream.
C6_ClosedStreamFails ==
    \A c \in CallIds :
       calls[c].sawClosed /\ calls[c].op \in {"execute", "commit"} =>
          /\ calls[c].status = "err"
          /\ calls[c].err[1].cls = "LibsqlError"
          /\ calls[c].err[1].code = "TRANSACTION_CLOSED"
          /\ SentFor(c) = {}

C6_Witness ==
    \E c, d \in CallIds :
       /\ calls[c].sawClosed /\ calls[c].op = "execute"
       /\ calls[d].sawClosed /\ calls[d].op = "commit"

\* C7: a rollback() that finds the stream closed, or the transaction never
\* started, returns without sending ROLLBACK; so ROLLBACK is sent at most
\* once, and a rollback() fails only if the ROLLBACK it sent itself failed.
C7_RollbackNoOp ==
    /\ \A c \in CallIds :
          calls[c].op = "rollback"
          /\ (calls[c].sawClosed \/ calls[c].sawStarted = "undefined") =>
             /\ calls[c].status = "ok"
             /\ SentFor(c) = {}
    /\ NumSent("ROLLBACK") <= 1
    /\ \A c \in CallIds :
          calls[c].op = "rollback" /\ calls[c].status = "err" =>
             \E i \in DOMAIN srvLog :
                srvLog[i].call = c /\ srvLog[i].sql = "ROLLBACK" /\ srvLog[i].out = "err"

C7_Witness ==
    \E c, d \in CallIds :
       /\ c < d
       /\ calls[c].op = "rollback" /\ calls[d].op = "rollback"
       /\ ~calls[c].sawClosed /\ calls[c].sawStarted = "undefined"
       /\ calls[d].sawClosed
       /\ calls[c].status = "ok" /\ calls[d].status = "ok"

\* C8: whenever a COMMIT has been issued on the stream, #started had been
\* fulfilled before: the BEGIN batch was answered, and BEGIN succeeded.
C8_CommitAfterBegin ==
    \A i \in DOMAIN sent :
       sent[i].sql = "COMMIT" => started = "ok" /\ answered >= 1 /\ i > 1

C8_Witness ==
    \E i \in DOMAIN sent :
       /\ sent[i].sql = "COMMIT"
       /\ calls[sent[i].call].sawStarted = "pending"

\* C9: every commit() and rollback() that has ended called close(), on every
\* exit path, and the transaction is closed afterwards.
C9_CloseOnEveryExit ==
    \A c \in CallIds :
       calls[c].op \in {"commit", "rollback"} /\ Done(c) =>
          /\ calls[c].closeCalled
          /\ coordClosed
          /\ streamClosed

C9_Witness ==
    \E c, d \in CallIds :
       /\ calls[c].op = "commit" /\ calls[c].sawStarted = "pending"
       /\ calls[c].status = "err"
       /\ calls[d].op = "rollback" /\ calls[d].sawClosed
       /\ Done(d)

\* C10: when the batch was answered and BEGIN, all N statements and COMMIT
\* succeeded, executeHranaBatch returns exactly N result sets, the i-th made
\* from the rows of the i-th statement's step, and the batch was submitted
\* exactly once.
C10_BatchReturnsAllInOrder ==
    /\ roundTrips <= 1
    /\ (/\ bpc = "done"
        /\ bexec.st = "ok"
        /\ \A k \in 1..CommitStep : bsteps[k].out = "ok") =>
          /\ bresult.status = "ok"
          /\ Len(bresult.value) = Len(bstmts)
          /\ \A i \in 1..Len(bstmts) :
                /\ bsteps[StmtStep(i)].sql = bstmts[i]
                /\ bresult.value[i] = resultSetFromHrana(bsteps[StmtStep(i)].rows[1])
                /\ bresult.value[i].rows[1][1] = bstmts[i]
          /\ roundTrips = 1

C10_Witness ==
    /\ bpc = "done"
    /\ bresult.status = "ok"
    /\ Len(bstmts) >= 2
    /\ bstmts[1] # bstmts[2]
    /\ bresult.value[1] # bresult.value[2]
    /\ bresult.value[2].lastInsertRowid = <<42>>
    /\ bresult.value[1].columns = <<bstmts[1], "">>

\* ------------------------------------------------------------ batch claims
StmtIdx(i) == i + 1

CommitIdx == Len(bstmts) + 2

RollbackIdx == Len(bstmts) + 3

\* The server ran step k (it succeeded or it failed).
StepRan(k) == bsteps[k].out \in {"ok", "err"}

\* The first step, in order, that failed.
FirstFailed == CHOOSE k \in 1..CommitIdx :
                  /\ bsteps[k].out = "err"
                  /\ \A j \in 1..(k - 1) : bsteps[j].out # "err"

AllSucceeded == \A k \in 1..CommitIdx : bsteps[k].out = "ok"

\* C11: executeHranaBatch returns a list only if the batch was answered and
\* BEGIN, every statement step and COMMIT succeeded, and then the list is
\* whole; in every other case it fails and hands back no list, so never a
\* shorter one.
C11_AllOrNothing ==
    /\ bresult.status = "ok" =>
          /\ bexec.st = "ok"
          /\ AllSucceeded
          /\ Len(bresult.value) = Len(bstmts)
    /\ bresult.status = "err" => bresult.value = <<>>
    /\ (bpc = "done" /\ ~(bexec.st = "ok" /\ AllSucceeded)) => bresult.status = "err"

C11_Witness ==
    /\ bpc = "done"
    /\ bresult.status = "err"
    /\ Len(bstmts) = 2
    /\ bsteps[StmtIdx(1)].out = "ok"
    /\ bsteps[StmtIdx(2)].out = "err"
    /\ resultSets # <<>>

\* C12: the conditions attached to the steps gate them on the server: a
\* statement step runs only if BEGIN and every statement before it
\* succeeded, COMMIT runs only if BEGIN and every statement succeeded,
\* ROLLBACK runs exactly when COMMIT did not succeed (it failed or was not
\* run), and once all steps are evaluated exactly one of "COMMIT succeeded"
\* and "ROLLBACK was attempted" holds.
C12_ServerGating ==
    bsteps # <<>> =>
       /\ \A i \in 1..Len(bstmts) :
             (srvPos >= StmtIdx(i) /\ StepRan(StmtIdx(i))) =>
                \A j \in 1..(StmtIdx(i) - 1) : bsteps[j].out = "ok"
       /\ (srvPos >= CommitIdx /\ StepRan(CommitIdx)) =>
             \A j \in 1..(CommitIdx - 1) : bsteps[j].out = "ok"
       /\ srvPos >= RollbackIdx =>
             /\ StepRan(RollbackIdx) <=> bsteps[CommitIdx].out # "ok"
             /\ (bsteps[CommitIdx].out = "ok") # StepRan(RollbackIdx)

C12_Witness ==
    /\ Len(bstmts) = 3
    /\ srvPos = RollbackIdx
    /\ bsteps[StmtIdx(1)].out = "ok"
    /\ bsteps[StmtIdx(2)].out = "err"
    /\ bsteps[StmtIdx(3)].out = "notrun"
    /\ bsteps[CommitIdx].out = "notrun"
    /\ bsteps[RollbackIdx].out = "err"

\* Some statement step was skipped by the server in an answered batch.
SomeStmtNotRun ==
    /\ bpc = "done"
    /\ bexec.st = "ok"
    /\ \E i \in 1..Len(bstmts) : bsteps[StmtIdx(i)].out = "notrun"

\* C15 as stated: when a statement step was not run because an earlier step
\* failed, the operation reports a missing result, SERVER_ERROR.
C15_NotRunReportsServerError ==
    SomeStmtNotRun =>
       /\ bresult.status = "err"
       /\ bresult.err = <<MissingResultError>>

\* C15 amended: when a statement step was not run because an earlier step
\* failed, the operation fails with the error of that earlier step, whose
\* promise is awaited first, and returns no list; the missing-result
\* SERVER_ERROR is not what it reports.
C15_NotRunReportsEarlierFailure ==
    SomeStmtNotRun =>
       /\ bresult.status = "err"
       /\ bresult.value = <<>>
       /\ bresult.err = bsteps[FirstFailed].err
       /\ bresult.err # <<MissingResultError>>

C15_Witness ==
    /\ SomeStmtNotRun
    /\ Len(bstmts) = 3
    /\ bsteps[StmtIdx(1)].out = "err"
    /\ bsteps[StmtIdx(3)].out = "notrun"
    /\ bresult.err = bsteps[StmtIdx(1)].err

\* What the operation owes its caller, told from the answer of the batch
\* and the outcomes of BEGIN, the statements and COMMIT alone; the ROLLBACK
\* step is not read.
ResultWithoutRollback ==
    IF bexec.st = "err" THEN Throw(bexec.err[1])
    ELSE IF \E k \in 1..CommitIdx : bsteps[k].out = "err"
         THEN Throw(bsteps[FirstFailed].err[1])
    ELSE [status |-> "ok",
          value  |-> [i \in 1..Len(bstmts) |->
                         resultSetFromHrana(bsteps[StmtIdx(i)].rows[1])],
          err    |-> <<>>]

\* C16: the outcome of the compensating ROLLBACK step never reaches the
\* caller: the result sets or the error of the operation are fixed by the
\* other steps, whether ROLLBACK succeeded, failed or was not run.
C16_RollbackOutcomeIgnored ==
    bpc = "done" => bresult = ResultWithoutRollback

C16_Witness ==
    /\ bpc = "done"
    /\ bexec.st = "ok"
    /\ bsteps[CommitIdx].out = "err"
    /\ bsteps[RollbackIdx].out = "err"
    /\ bsteps[RollbackIdx].err # bsteps[CommitIdx].err
    /\ bresult.err = bsteps[CommitIdx].err

\* ------------------------------------------------- termination and ordering
\* Call c issued its terminating statement (ROLLBACK or COMMIT).
IssuedTerminator(c) ==
    /\ calls[c].op \in {"rollback", "commit"}
    /\ SentFor(c) # {}

\* The response to every request of call c has been observed.
ResponseObserved(c) == \A i \in SentFor(c) : i <= answered

\* C13: a rollback() that issues ROLLBACK, and a commit() that issues
\* COMMIT, requests the stream's close along with it, suspends until the
\* response, and only then calls close(): while the response is pending the
\* stream is already closed to new requests, the call has not finished and it
\* has not called close().
C13_CloseAfterResponse ==
    \A c \in CallIds :
       IssuedTerminator(c) =>
          /\ streamClosed
          /\ ~ResponseObserved(c) => (~Done(c) /\ ~calls[c].closeCalled)
          /\ calls[c].closeCalled => (Done(c) /\ ResponseObserved(c))
          /\ Done(c) => calls[c].closeCalled

C13_Witness ==
    \E c, d \in CallIds :
       /\ calls[c].op = "execute"
       /\ c < d
       /\ calls[d].op = "rollback"
       /\ IssuedTerminator(d)
       /\ ResponseObserved(d)
       /\ Done(d)
       /\ calls[d].status = "err"
       /\ calls[d].closeCalled

\* Nothing but execute() and commit() was called up to call c, and no
\* commit() before it: no call closed the stream ahead of c's turn.
NoCloserBefore(c) ==
    /\ \A d \in CallIds : calls[d].op \notin {"rollback", "close"}
    /\ \A d \in CallIds : d < c => calls[d].op # "commit"

\* Call c has resumed from its wait on the started outcome.
PastStarted(c) == Done(c) \/ pc[calls[c].by] \notin {"exec58", "exec68", "cm124"}

\* C14: requests reach the stream in the order the calls were made: an
\* execute() that waited on the started outcome has its statement issued
\* once BEGIN succeeded, none is skipped and none overtakes an earlier call,
\* and the COMMIT of a commit() made after them comes after all their
\* statements.
C14_SubmissionOrder ==
    /\ \A i, j \in DOMAIN sent : i < j => sent[i].call < sent[j].call
    /\ \A c \in CallIds :
          (/\ StartingExecute(c)
           /\ NoCloserBefore(c)
           /\ started = "ok"
           /\ PastStarted(c)) => SentFor(c) # {}
    /\ \A c, d \in CallIds :
          (/\ StartingExecute(c)
           /\ c < d
           /\ calls[d].op = "commit"
           /\ NoCloserBefore(d)
           /\ IssuedTerminator(d)) =>
             /\ SentFor(c) # {}
             /\ \A i \in SentFor(c), j \in SentFor(d) : i < j

C14_Witness ==
    \E c1, c2, d \in CallIds :
       /\ c1 < c2 /\ c2 < d
       /\ calls[c1].op = "execute" /\ calls[c1].sawStarted = "undefined"
       /\ calls[c2].op = "execute" /\ calls[c2].sawStarted = "pending"
       /\ calls[d].op = "commit" /\ calls[d].sawStarted = "pending"
       /\ IssuedTerminator(d)
       /\ \A i \in SentFor(c2), j \in SentFor(d) : i < j
       /\ SentFor(c2) # {}

Terminators == {"COMMIT", "ROLLBACK"}

\* C19: once COMMIT or ROLLBACK has been issued, and the stream's close
\* requested with it, no statement of an execute() reaches that stream any
\* more, in any interleaving: an execute() that passed the closed check
\* earlier and resumes from its wait afterwards fails without its statement
\* being sent.
C19_NoStmtAfterTerminator ==
    /\ \A i, j \in DOMAIN sent :
          (i < j /\ sent[i].sql \in Terminators) => calls[sent[j].call].op # "execute"
    /\ \A c \in CallIds :
          (/\ calls[c].op = "execute"
           /\ Done(c)
           /\ \E i \in DOMAIN sent : sent[i].sql \in Terminators /\ sent[i].call < c)
          => (SentFor(c) = {} /\ calls[c].status = "err")

C19_Witness ==
    \E c, d \in CallIds :
       /\ calls[c].op = "execute"
       /\ calls[c].sawStarted = "pending"
       /\ ~calls[c].sawClosed
       /\ calls[d].op = "rollback"
       /\ c < d
       /\ IssuedTerminator(d)
       /\ started = "ok"
       /\ Done(c)
       /\ SentFor(c) = {}
       /\ calls[c].err # <<>>
       /\ calls[c].err[1].code = "HRANA_CLOSED_ERROR"

\* C20: over any interleaving of commit() and rollback() calls at most one
\* terminating statement, COMMIT or ROLLBACK, is ever issued; a commit() that
\* was waiting on the started outcome when another commit() or rollback()
\* closed the stream issues no COMMIT and fails.
C20_AtMostOneTerminator ==
    /\ NumSent("COMMIT") + NumSent("ROLLBACK") <= 1
    /\ \A c, d \in CallIds :
          (/\ c # d
           /\ IssuedTerminator(d)
           /\ calls[c].op = "commit"
           /\ Done(c)) => (SentFor(c) = {} /\ calls[c].status = "err")

C20_Witness ==
    \E c, d \in CallIds :
       /\ c < d
       /\ calls[c].op = "commit" /\ calls[c].sawStarted = "pending"
       /\ calls[d].op = "commit" /\ calls[d].sawStarted = "pending"
       /\ ~calls[d].sawClosed
       /\ started = "ok"
       /\ IssuedTerminator(c)
       /\ Done(d)
       /\ SentFor(d) = {}
       /\ calls[d].err # <<>>
       /\ calls[d].err[1].code = "HRANA_CLOSED_ERROR"
       /\ NumSent("COMMIT") = 1

\* An execute(), commit() or rollback() call that has not returned yet.
Pending(c) ==
    /\ c \in CallIds
    /\ calls[c].op \in {"execute", "commit", "rollback"}
    /\ ~Done(c)

\* C17: closing the stream leaves no operation hanging: with a stream that
\* answers or fails every request it was sent, every execute(), commit() or
\* rollback() call that is pending when the stream is closed, the ones
\* waiting on the started outcome included, eventually completes (a call
\* that has returned stays returned, so all of them have once none is left).
C17_NoHangAfterClose ==
    (streamClosed /\ \E c \in CallIds : Pending(c)) ~> (\A c \in CallIds : Done(c))

C17_Witness ==
    \E c, d \in CallIds :
       /\ c # d
       /\ calls[c].op = "execute"
       /\ Pending(c)
       /\ pc[calls[c].by] = "exec68"
       /\ started = "pending"
       /\ calls[d].op = "rollback"
       /\ Pending(d)
       /\ streamClosed

\* ========================================================== error mapping
\* The values a caller of mapHranaError holds in a catch: errors of the
\* client library (only a response error carries a code, which the server
\* may leave out), errors of this library, mapped already, and foreign ones.
MapMsgs == {"", "no such table", "closed"}

ResponseCodes == {"undefined", "SQLITE_ERROR", "SQLITE_BUSY"}

LibsqlCodes == {"TRANSACTION_CLOSED", "SERVER_ERROR", "UNKNOWN"}

ForeignClasses == {"TypeError", "RangeError"}

MapInputs ==
    {HranaErr("ResponseError", c, m) : c \in ResponseCodes, m \in MapMsgs}
    \cup {HranaErr(cls, "undefined", m) :
             cls \in ClientErrorClasses \ {"ResponseError"}, m \in MapMsgs}
    \cup {LibsqlError(m, c, <<>>) : c \in LibsqlCodes, m \in MapMsgs}
    \cup {HranaErr(cls, "undefined", m) : cls \in ForeignClasses, m \in MapMsgs}

MapInit ==
    /\ TxnInit
    /\ BatchIdle
    /\ merr \in {<<e>> : e \in MapInputs}
    /\ mout = <<>>

\* mapHranaError(e), then mapHranaError of what it returned.
ApplyMap ==
    /\ merr # <<>>
    /\ Len(mout) < MaxApply
    /\ mout' = Append(mout, mapHranaError(IF mout = <<>> THEN merr[1]
                                          ELSE mout[Len(mout)]))
    /\ UNCHANGED <<merr, txnVars, batchVars>>

MapNext == ApplyMap

MapSpec == MapInit /\ [][MapNext]_vars

\* The code the mapping is said to give a client-library error, in the
\* order of priority of the claim.
ClaimedCode(e) ==
    CASE e.cls = "ResponseError" /\ e.code # "undefined" -> e.code
      [] e.cls = "ProtoError"                            -> "HRANA_PROTO_ERROR"
      [] e.cls = "ClosedError"                           -> "HRANA_CLOSED_ERROR"
      [] e.cls = "WebSocketError"                        -> "HRANA_WEBSOCKET_ERROR"
      [] e.cls = "HttpServerError"                       -> "SERVER_ERROR"
      [] e.cls = "ProtocolVersionError"                  -> "PROTOCOL_VERSION_ERROR"
      [] OTHER                                           -> "UNKNOWN"

\* C18: mapHranaError turns a client-library error into a LibsqlError with
\* the code of the first matching case (a response error's own code when it
\* has one, then protocol framing, closed, socket, server failure, version
\* mismatch, else UNKNOWN), keeping the message and wrapping the original;
\* any other value, an already mapped error included, comes back unchanged,
\* so mapping twice gives what mapping once gives.
C18_MappingPriority ==
    mout # <<>> =>
       LET e == merr[1]
           r == mout[1] IN
       /\ e.cls \in ClientErrorClasses =>
             /\ r.cls = "LibsqlError"
             /\ r.code = ClaimedCode(e)
             /\ r.msg = e.msg
             /\ r.cause = <<e>>
       /\ e.cls \notin ClientErrorClasses => r = e
       /\ \A k \in 2..Len(mout) : mout[k] = r

C18_Witness ==
    /\ Len(mout) = 2
    /\ merr[1].cls = "ResponseError"
    /\ merr[1].code = "undefined"
    /\ mout[1].code = "UNKNOWN"
    /\ mout[2] = mout[1]

====
